---- MODULE Spec2Model ----
(***************************************************************************)
(* Zero-locus extraction engine of pySciWS: the parameter-space descriptor *)
(* (src/src/my_dtypes.py), the expression compiler (src/src/numerical.py), *)
(* the volumetric extractor (src/src/space_curve.py) and the planar        *)
(* extractor (src/src/my_plots.py), as one state machine of calls made by  *)
(* a driver script.                                                        *)
(***************************************************************************)
EXTENDS Integers, Sequences, FiniteSets, TLC

VARIABLES ps, numpy_func, frame, trace, figs, lastVis

vars == <<ps, numpy_func, frame, trace, figs, lastVis>>

(* ------------------------------ bounds -------------------------------- *)

\* Largest per-axis resolution a driver passes.
MaxRes == 3

\* Largest number of pyplot figures opened in one run.
MaxFigs == 1

(* ------------------------- exact rational numbers ---------------------- *)
\* Coordinates and field values are kept exact as <<numerator, denominator>>,
\* denominator > 0, in lowest terms.

Abs(n) == IF n < 0 THEN -n ELSE n

RECURSIVE GCD(_, _)
GCD(a, b) == IF b = 0 THEN a ELSE GCD(b, a % b)

Rat(n, d) ==
    LET g == GCD(Abs(n), d)
    IN  IF n = 0 THEN <<0, 1>> ELSE <<n \div g, d \div g>>

RInt(n) == <<n, 1>>
RAdd(p, q) == Rat(p[1] * q[2] + q[1] * p[2], p[2] * q[2])
RSub(p, q) == Rat(p[1] * q[2] - q[1] * p[2], p[2] * q[2])
RMul(p, q) == Rat(p[1] * q[1], p[2] * q[2])
RScale(k, p) == Rat(k * p[1], p[2])
RLe(p, q) == p[1] * q[2] <= q[1] * p[2]
RLt(p, q) == p[1] * q[2] < q[1] * p[2]
\* p / q for q # 0
RDiv(p, q) ==
    IF q[1] > 0 THEN Rat(p[1] * q[2], p[2] * q[1])
    ELSE Rat(-(p[1] * q[2]), p[2] * (-q[1]))

(* ----------------------- symbolic expressions -------------------------- *)
\* sympy expressions are modelled by the complex-linear ones:
\*   (re.c + SUM re.k[s]*s) + I*(im.c + SUM im.k[s]*s).

Symbols == {"x", "y", "z", "a"}

Lin(kx, ky, kz, ka, c) ==
    [k |-> [s \in Symbols |->
              CASE s = "x" -> kx [] s = "y" -> ky [] s = "z" -> kz [] OTHER -> ka],
     c |-> c]

\* (x - 1) + I*(y - 2)
ExprPlanes == [re |-> Lin(1, 0, 0, 0, -1), im |-> Lin(0, 1, 0, 0, -2)]
\* (x + 2*y + 4*z - 3) + I*(z - x)
ExprSkew == [re |-> Lin(1, 2, 4, 0, -3), im |-> Lin(-1, 0, 1, 0, 0)]
\* x + a - 2, real
ExprParam == [re |-> Lin(1, 0, 0, 1, -2), im |-> Lin(0, 0, 0, 0, 0)]

Exprs == {ExprPlanes, ExprSkew, ExprParam}

free_symbols(e) == {s \in Symbols : e.re.k[s] # 0 \/ e.im.k[s] # 0}

\* The expression contains the imaginary unit: its numeric value is complex.
HasI(e) == e.im.c # 0 \/ \E s \in Symbols : e.im.k[s] # 0

RECURSIVE SumOver(_, _)
SumOver(S, f) ==
    IF S = {} THEN 0
    ELSE LET s == CHOOSE t \in S : TRUE IN f[s] + SumOver(S \ {s}, f)

\* A dict {Symbol: value} is a sequence of <<symbol, value>> pairs in
\* insertion order, without repeated keys.
Keys(d) == {d[i][1] : i \in 1..Len(d)}

\* Python's None where a dict is expected: no sequence of pairs.
None == <<<<>>>>

KeyList(d) == [i \in 1..Len(d) |-> d[i][1]]
Lookup(d, s) == d[CHOOSE i \in 1..Len(d) : d[i][1] = s][2]

SubsLin(l, d) ==
    [k |-> [s \in Symbols |-> IF s \in Keys(d) THEN 0 ELSE l.k[s]],
     c |-> l.c + SumOver(Keys(d), [s \in Keys(d) |-> l.k[s] * Lookup(d, s)])]

\* Expr.subs(arg) with a single argument that is neither a mapping nor
\* iterable is a ValueError.
subs_raises(d) == d = None

\* Expr.subs(dict): every key of the dict is replaced by its value.
subs(e, d) == [re |-> SubsLin(e.re, d), im |-> SubsLin(e.im, d)]

(* ------------------------------ arrays --------------------------------- *)
\* An ndarray is [shape, data]: data maps each 0-based index tuple to the
\* element.  shape <<>> is a Python scalar.

Idx(shape) ==
    CASE Len(shape) = 0 -> {<<>>}
      [] Len(shape) = 1 -> {<<i>> : i \in 0..(shape[1] - 1)}
      [] Len(shape) = 2 ->
           {<<i, j>> : i \in 0..(shape[1] - 1), j \in 0..(shape[2] - 1)}
      [] OTHER ->
           {<<i, j, k>> : i \in 0..(shape[1] - 1), j \in 0..(shape[2] - 1),
                          k \in 0..(shape[3] - 1)}

Scalar(v) == [shape |-> <<>>, data |-> [i \in {<<>>} |-> v]]

\* numpy.linspace(start, stop, num), num >= 1: num evenly spaced samples, both
\* end points included; a single sample is start.
linspace(start, stop, num) ==
    [shape |-> <<num>>,
     data |-> [i \in Idx(<<num>>) |->
                 IF num = 1 THEN RInt(start)
                 ELSE Rat(start * (num - 1) + i[1] * (stop - start), num - 1)]]

\* numpy.meshgrid(x, y, z, indexing="ij"): three arrays of shape
\* (len x, len y, len z), the n-th one repeating the n-th vector along axis n.
meshgrid_ij(x, y, z) ==
    LET shape == <<x.shape[1], y.shape[1], z.shape[1]>>
    IN  <<[shape |-> shape, data |-> [i \in Idx(shape) |-> x.data[<<i[1]>>]]],
          [shape |-> shape, data |-> [i \in Idx(shape) |-> y.data[<<i[2]>>]]],
          [shape |-> shape, data |-> [i \in Idx(shape) |-> z.data[<<i[3]>>]]]>>

(* ---------------------- compiled numeric functions --------------------- *)

\* sympy.lambdify(params, expr, modules=["numpy"]): a Python function of the
\* listed parameters whose body is the printed expression.  Nothing is
\* checked here: a symbol of the body that is no parameter is looked up, and
\* missed, only when the function is called.
lambdify(params, expr) == [params |-> params, body |-> expr]

ParamSet(f) == {f.params[i] : i \in 1..Len(f.params)}

\* The argument bound to symbol s (the last parameter of that name).
ArgOf(f, args, s) ==
    args[CHOOSE i \in 1..Len(f.params) :
           /\ f.params[i] = s
           /\ \A j \in (i + 1)..Len(f.params) : f.params[j] # s]

\* The shape of the result: that of the array arguments the body uses; a body
\* that uses none is evaluated once, to a Python scalar.
BroadcastShape(f, args) ==
    LET used == {s \in free_symbols(f.body) : ArgOf(f, args, s).shape # <<>>}
    IN  IF used = {} THEN <<>>
        ELSE ArgOf(f, args, CHOOSE s \in used : TRUE).shape

EvalLin(l, f, args, idx) ==
    LET S == {s \in Symbols : l.k[s] # 0}
        val(s) == LET a == ArgOf(f, args, s)
                  IN  a.data[IF a.shape = <<>> THEN <<>> ELSE idx]
        RECURSIVE Acc(_)
        Acc(T) == IF T = {} THEN RInt(l.c)
                  ELSE LET s == CHOOSE t \in T : TRUE
                       IN  RAdd(RScale(l.k[s], val(s)), Acc(T \ {s}))
    IN  Acc(S)

\* f(*args): the elementwise value, <<real part, imaginary part>> when the body
\* contains I and a real number otherwise; NameError when the body names a
\* symbol that is no parameter.
Call(f, args) ==
    IF ~(free_symbols(f.body) \subseteq ParamSet(f))
    THEN [err |-> "NameError"]
    ELSE LET shape == BroadcastShape(f, args)
         IN  [err |-> "none",
              shape |-> shape,
              cplx |-> HasI(f.body),
              data |-> [i \in Idx(shape) |->
                          IF HasI(f.body)
                          THEN <<EvalLin(f.body.re, f, args, i),
                                 EvalLin(f.body.im, f, args, i)>>
                          ELSE EvalLin(f.body.re, f, args, i)]]

\* np.iscomplexobj(v)
iscomplexobj(v) == v.cplx

\* np.real(v), np.imag(v): the parts of a complex value; of a real value,
\* the value itself and zeros.
real(v) ==
    IF v.cplx
    THEN [v EXCEPT !.cplx = FALSE, !.data = [i \in DOMAIN v.data |-> v.data[i][1]]]
    ELSE v

imag(v) ==
    IF v.cplx
    THEN [v EXCEPT !.cplx = FALSE, !.data = [i \in DOMAIN v.data |-> v.data[i][2]]]
    ELSE [v EXCEPT !.data = [i \in DOMAIN v.data |-> RInt(0)]]

(* --------------------- src/src/my_dtypes.py ---------------------------- *)

\* The boxes a driver declares: (x_range, y_range, z_range).
Boxes ==
    {[x_range |-> <<0, 2>>, y_range |-> <<1, 3>>, z_range |-> <<-1, 1>>],
     [x_range |-> <<1, 3>>, y_range |-> <<0, 4>>, z_range |-> <<0, 1>>]}

\* The default of the field fixed_param.
fixed_param_default == None

\* The fixed-parameter dicts a driver declares: the argument left out, none
\* fixed, a fixed, and a together with the axis symbol x.
FixedChoices ==
    {fixed_param_default, <<>>, <<<<"a", 1>>>>, <<<<"a", 1>>, <<"x", 1>>>>}

Resolutions == 1..MaxRes

\* @dataclass(frozen=True) class ParamSpace3D: the generated __init__ stores
\* its arguments; the class defines no __post_init__ and validates nothing.
ParamSpace3D(box, rx, ry, rz, fixed) ==
    [x |-> "x", x_range |-> box.x_range,
     y |-> "y", y_range |-> box.y_range,
     z |-> "z", z_range |-> box.z_range,
     x_resolution |-> rx, y_resolution |-> ry, z_resolution |-> rz,
     fixed_param |-> fixed]

AxisSymbols(p) == {p.x, p.y, p.z}

(* ------------------------- the driver's state -------------------------- *)
\* ps, numpy_func: the driver's parameter space and compiled function, <<>>
\*   until made, <<value>> after.
\* frame: the running (or just ended) call: op, pc, err, the locals assigned
\*   so far, and entry, the driver's state when the call began.
\* trace: the events of that call, in order.
\* figs: the number of figures in pyplot's process-wide registry.
\* lastVis: the arguments and result of the last vis_complex_equation call
\*   that returned, since the function was last compiled.

NoFrame == [op |-> "none", pc |-> "idle", err |-> "none"]

\* What a call finds on entry: kept in its frame for comparison at its end.
Entry == [ps |-> ps, numpy_func |-> numpy_func, figs |-> figs]

Idle == frame.pc = "idle"

Init ==
    /\ ps = <<>>
    /\ numpy_func = <<>>
    /\ frame = NoFrame
    /\ trace = <<>>
    /\ figs = 0
    /\ lastVis = <<>>

\* param_space = ParamSpace3D(...)
NewParamSpace ==
    /\ Idle
    /\ ps = <<>>
    /\ \E box \in Boxes, rx, ry, rz \in Resolutions, fixed \in FixedChoices :
         ps' = <<ParamSpace3D(box, rx, ry, rz, fixed)>>
    /\ UNCHANGED <<numpy_func, frame, trace, figs, lastVis>>

(* --------------------- src/src/numerical.py ---------------------------- *)

\* get_numpy_func(expr, param_space): substitute the fixed parameters, then
\* lambdify over [x, y, z].  No symbol set is compared with another.
get_numpy_func(expr, param_space) ==
    LET expr_substituted == subs(expr, param_space.fixed_param)
        params == <<param_space.x, param_space.y, param_space.z>>
    IN  lambdify(params, expr_substituted)

GetNumpyFunc ==
    /\ Idle
    /\ ps # <<>>
    /\ \E expr \in Exprs :
         IF subs_raises(ps[1].fixed_param)
         THEN /\ frame' = [op |-> "get_numpy_func", pc |-> "raised",
                           err |-> "ValueError", expr |-> expr,
                           param_space |-> ps[1], entry |-> Entry]
              /\ trace' = <<"raise">>
              /\ UNCHANGED <<numpy_func, lastVis>>
         ELSE LET f == get_numpy_func(expr, ps[1])
              IN  /\ numpy_func' = <<f>>
                  /\ frame' = [op |-> "get_numpy_func", pc |-> "returned",
                               err |-> "none", expr |-> expr,
                               param_space |-> ps[1], entry |-> Entry,
                               ret |-> f]
                  /\ trace' = <<>>
                  /\ lastVis' = <<>>
    /\ UNCHANGED <<ps, figs>>

(* --------------------- src/src/space_curve.py -------------------------- *)

\* flatten in C order (the last index varies fastest): flatten_F with the
\* order argument dropped.
flatten_C(arr) ==
    LET nx == arr.shape[1]
        ny == arr.shape[2]
        nz == arr.shape[3]
    IN  [p \in 0..(nx * ny * nz - 1) |->
           arr.data[<<p \div (ny * nz), (p \div nz) % ny, p % nz>>]]

\* ndarray.flatten(order="F"): the first index varies fastest.
flatten_F(arr) ==
    LET nx == arr.shape[1]
        ny == arr.shape[2]
        nz == arr.shape[3]
    IN  [p \in 0..(nx * ny * nz - 1) |->
           arr.data[<<p % nx, (p \div nx) % ny, p \div (nx * ny)>>]]

\* pv.ImageData numbers its points with the first axis fastest and places
\* point (i, j, k) at origin + (i, j, k) * spacing.
PointId(grid, i, j, k) ==
    i + grid.dimensions[1] * j + grid.dimensions[1] * grid.dimensions[2] * k

PointPos(grid, i, j, k) ==
    <<RAdd(RInt(grid.origin[1]), RScale(i, grid.spacing[1])),
      RAdd(RInt(grid.origin[2]), RScale(j, grid.spacing[2])),
      RAdd(RInt(grid.origin[3]), RScale(k, grid.spacing[3]))>>

\* grid.contour(isosurfaces=[0], scalars=name): the mesh the filter makes of
\* the lattice and the named field; a term fixed by exactly these inputs.
contour(grid, name) ==
    [filter |-> "contour", isosurfaces |-> <<0>>, scalars |-> name,
     dimensions |-> grid.dimensions, origin |-> grid.origin,
     spacing |-> grid.spacing, field |-> grid.point_data[name]]

\* first.intersection(second, split_first=False, split_second=False): the
\* intersection lines and the two inputs, unsplit.
intersection(first, second) ==
    <<[filter |-> "intersection", first |-> first, second |-> second],
      first, second>>

Running(op, pc) == frame.op = op /\ frame.pc = pc

Raise(e) == [frame EXCEPT !.pc = "raised", !.err = e]

\* lines 42-67: the call, the axis lengths, the three linspace vectors and the
\* coordinate mesh.
VisCall ==
    /\ Idle
    /\ ps # <<>>
    /\ numpy_func # <<>>
    /\ LET param_space == ps[1]
           x == linspace(param_space.x_range[1], param_space.x_range[2],
                         param_space.x_resolution)
           y == linspace(param_space.y_range[1], param_space.y_range[2],
                         param_space.y_resolution)
           z == linspace(param_space.z_range[1], param_space.z_range[2],
                         param_space.z_resolution)
           mats == meshgrid_ij(x, y, z)
       IN  frame' = [op |-> "vis_complex_equation", pc |-> "evaluate",
                     err |-> "none",
                     numpy_func |-> numpy_func[1], param_space |-> param_space,
                     entry |-> Entry,
                     x_len |-> param_space.x_range[2] - param_space.x_range[1],
                     y_len |-> param_space.y_range[2] - param_space.y_range[1],
                     z_len |-> param_space.z_range[2] - param_space.z_range[1],
                     x |-> x, y |-> y, z |-> z,
                     coord_x_mat |-> mats[1], coord_y_mat |-> mats[2],
                     coord_z_mat |-> mats[3]]
    /\ trace' = <<>>
    /\ UNCHANGED <<ps, numpy_func, figs, lastVis>>

\* lines 71-77: the function is evaluated over the whole mesh, then split.
VisEvaluate ==
    /\ Running("vis_complex_equation", "evaluate")
    /\ LET values == Call(frame.numpy_func,
                          <<frame.coord_x_mat, frame.coord_y_mat,
                            frame.coord_z_mat>>)
       IN  IF values.err # "none"
           THEN /\ frame' = Raise(values.err)
                /\ trace' = Append(trace, "raise")
           ELSE /\ frame' = [frame EXCEPT !.pc = "grid"] @@
                            [values |-> values, real_part |-> real(values),
                             imag_part |-> imag(values)]
                /\ trace' = Append(trace, "evaluate")
    /\ UNCHANGED <<ps, numpy_func, figs, lastVis>>

\* lines 80-95: the lattice; each spacing is a Python division by
\* (resolution - 1).
VisGrid ==
    /\ Running("vis_complex_equation", "grid")
    /\ LET p == frame.param_space
       IN  IF p.x_resolution - 1 = 0 \/ p.y_resolution - 1 = 0
              \/ p.z_resolution - 1 = 0
           THEN /\ frame' = Raise("ZeroDivisionError")
                /\ trace' = Append(trace, "raise")
           ELSE /\ frame' = [frame EXCEPT !.pc = "fields"] @@
                     [grid |->
                        [dimensions |-> <<p.x_resolution, p.y_resolution,
                                          p.z_resolution>>,
                         origin |-> <<p.x_range[1], p.y_range[1], p.z_range[1]>>,
                         spacing |-> <<Rat(frame.x_len, p.x_resolution - 1),
                                       Rat(frame.y_len, p.y_resolution - 1),
                                       Rat(frame.z_len, p.z_resolution - 1)>>,
                         point_data |-> [n \in {} |-> <<>>]]]
                /\ trace' = trace
    /\ UNCHANGED <<ps, numpy_func, figs, lastVis>>

\* lines 98-99: both parts are flattened and attached as point fields.  A
\* Python scalar (the value of a constant body) has no flatten method.
VisFields ==
    /\ Running("vis_complex_equation", "fields")
    /\ IF frame.real_part.shape = <<>>
       THEN /\ frame' = Raise("AttributeError")
            /\ trace' = Append(trace, "raise")
       ELSE /\ frame' = [frame EXCEPT
                           !.pc = "contour",
                           !.grid.point_data =
                               [n \in {"real", "imag"} |->
                                  IF n = "real" THEN flatten_F(frame.real_part)
                                  ELSE flatten_F(frame.imag_part)]]
            /\ trace' = trace
    /\ UNCHANGED <<ps, numpy_func, figs, lastVis>>

\* lines 102-105: the two level-0 isosurfaces.
VisContour ==
    /\ Running("vis_complex_equation", "contour")
    /\ frame' = [frame EXCEPT !.pc = "intersect"] @@
                [real_contour |-> contour(frame.grid, "real"),
                 imag_contour |-> contour(frame.grid, "imag")]
    /\ trace' = Append(trace, "contour")
    /\ UNCHANGED <<ps, numpy_func, figs, lastVis>>

\* lines 111-173: the intersection, the optional rendering, the return.
VisIntersect ==
    /\ Running("vis_complex_equation", "intersect")
    /\ \E plot \in BOOLEAN :
         LET r == intersection(frame.real_contour, frame.imag_contour)
         IN  /\ frame' = [frame EXCEPT !.pc = "returned"] @@
                         [plot |-> plot, curve |-> r[1], first_face |-> r[2],
                          second_face |-> r[3], ret |-> r]
             /\ trace' = IF plot THEN trace \o <<"intersect", "show">>
                         ELSE Append(trace, "intersect")
    /\ UNCHANGED <<ps, numpy_func, figs, lastVis>>

(* ----------------------- src/src/my_plots.py --------------------------- *)

\* The level lists a driver passes; [0] is the default.
LevelChoices == {<<0>>, <<-5, 1>>, <<1, 5>>}

\* meshgrid with indexing="ij" in place of the default: X repeats x along
\* every column.
meshgrid_xy_as_ij(x, y) ==
    LET shape == <<x.shape[1], y.shape[1]>>
    IN  <<[shape |-> shape, data |-> [i \in Idx(shape) |-> x.data[<<i[1]>>]]],
          [shape |-> shape, data |-> [i \in Idx(shape) |-> y.data[<<i[2]>>]]]>>

\* numpy.meshgrid(x, y) (indexing="xy"): two arrays of shape (len y, len x);
\* X repeats x along every row, Y repeats y along every column.
meshgrid_xy(x, y) ==
    LET shape == <<y.shape[1], x.shape[1]>>
    IN  <<[shape |-> shape, data |-> [i \in Idx(shape) |-> x.data[<<i[2]>>]]],
          [shape |-> shape, data |-> [i \in Idx(shape) |-> y.data[<<i[1]>>]]]>>

\* lines 64-76: the parameter order of the numeric function and the values of
\* the parameters that are no axis, after the first n entries of all_params.
RECURSIVE ParamLoop(_, _, _, _, _)
ParamLoop(all_params, n, param_x, param_y, fixed_params) ==
    IF n = 0
    THEN [err |-> "none", lambda_params |-> <<param_x, param_y>>,
          fixed_values |-> <<>>]
    ELSE LET r == ParamLoop(all_params, n - 1, param_x, param_y, fixed_params)
             param == all_params[n]
         IN  IF r.err # "none" \/ param \in {param_x, param_y} THEN r
             ELSE IF param \notin Keys(fixed_params)
             THEN [r EXCEPT !.err = "ValueError"]
             ELSE [r EXCEPT !.lambda_params = Append(@, param),
                            !.fixed_values =
                                Append(@, Lookup(fixed_params, param))]

\* The pairs of neighbouring nodes of a (rows, columns) grid.
GridEdges(shape) ==
    {<<p, q>> \in Idx(shape) \X Idx(shape) :
        \/ q[1] = p[1] /\ q[2] = p[2] + 1
        \/ q[1] = p[1] + 1 /\ q[2] = p[2]}

\* The point of edge (p, q) at which the linearly interpolated field is L.
CrossPoint(X, Y, Z, p, q, L) ==
    LET t == RDiv(RSub(RInt(L), Z.data[p]), RSub(Z.data[q], Z.data[p]))
    IN  <<RAdd(X.data[p], RMul(t, RSub(X.data[q], X.data[p]))),
          RAdd(Y.data[p], RMul(t, RSub(Y.data[q], Y.data[p])))>>

\* ax.contour(X, Y, Z, levels=levels): for each level the points of its
\* polylines (marching squares: one point on every grid edge whose ends lie
\* on different sides of the level); TypeError unless Z is a 2-D array of at
\* least 2 x 2 nodes.
ax_contour(X, Y, Z, levels) ==
    IF Len(Z.shape) # 2 \/ Z.shape[1] < 2 \/ Z.shape[2] < 2
    THEN [err |-> "TypeError"]
    ELSE [err |-> "none",
          levels |-> levels,
          points |-> [n \in 1..Len(levels) |->
              {CrossPoint(X, Y, Z, e[1], e[2], levels[n]) :
                 e \in {d \in GridEdges(Z.shape) :
                          RLt(RInt(levels[n]), Z.data[d[1]])
                              # RLt(RInt(levels[n]), Z.data[d[2]])}}]]

\* lines 64-84: the call, the parameter loop, lambdify, the two linspace
\* vectors and the coordinate mesh.  The driver plots the first two axes of
\* its parameter space.
PlotCall ==
    /\ Idle
    /\ ps # <<>>
    /\ figs < MaxFigs
    /\ \E func \in Exprs, levels \in LevelChoices :
         LET param_x == ps[1].x
             param_y == ps[1].y
             x_range == ps[1].x_range
             y_range == ps[1].y_range
             fixed_params == ps[1].fixed_param
             resolution == ps[1].x_resolution
             all_params == <<param_x, param_y>> \o KeyList(fixed_params)
             loop == ParamLoop(all_params, Len(all_params), param_x, param_y,
                               fixed_params)
             x == linspace(x_range[1], x_range[2], resolution)
             y == linspace(y_range[1], y_range[2], resolution)
             mats == meshgrid_xy(x, y)
             args == [op |-> "plot_zero_contours", pc |-> "evaluate",
                      err |-> "none", func |-> func, param_x |-> param_x,
                      param_y |-> param_y, x_range |-> x_range,
                      y_range |-> y_range, fixed_params |-> fixed_params,
                      resolution |-> resolution, levels |-> levels,
                      entry |-> Entry, all_params |-> all_params]
         IN  IF fixed_params = None
             THEN \* line 65: None has no keys()
                  /\ frame' = [op |-> "plot_zero_contours", pc |-> "raised",
                               err |-> "AttributeError", func |-> func,
                               param_x |-> param_x, param_y |-> param_y,
                               x_range |-> x_range, y_range |-> y_range,
                               fixed_params |-> fixed_params,
                               resolution |-> resolution, levels |-> levels,
                               entry |-> Entry]
                  /\ trace' = <<"raise">>
             ELSE IF loop.err # "none"
             THEN /\ frame' = [args EXCEPT !.pc = "raised", !.err = loop.err]
                  /\ trace' = <<"raise">>
             ELSE /\ frame' = args @@
                       [lambda_params |-> loop.lambda_params,
                        fixed_values |-> loop.fixed_values,
                        func_numeric |-> lambdify(loop.lambda_params, func),
                        x |-> x, y |-> y, X |-> mats[1], Y |-> mats[2]]
                  /\ trace' = <<>>
    /\ UNCHANGED <<ps, numpy_func, figs, lastVis>>

\* line 88: the function is evaluated over the whole mesh.
PlotEvaluate ==
    /\ Running("plot_zero_contours", "evaluate")
    /\ LET Z == Call(frame.func_numeric,
                     <<frame.X, frame.Y>> \o
                     [i \in 1..Len(frame.fixed_values) |->
                        Scalar(RInt(frame.fixed_values[i]))])
       IN  IF Z.err # "none"
           THEN /\ frame' = Raise(Z.err)
                /\ trace' = Append(trace, "raise")
           ELSE /\ frame' = [frame EXCEPT !.pc = "narrow"] @@
                            [sampled |-> Z, Z |-> Z]
                /\ trace' = Append(trace, "evaluate")
    /\ UNCHANGED <<ps, numpy_func, figs, lastVis>>

\* lines 91-93: a complex result is reported and narrowed to its real part.
PlotNarrow ==
    /\ Running("plot_zero_contours", "narrow")
    /\ IF iscomplexobj(frame.Z)
       THEN /\ frame' = [frame EXCEPT !.pc = "figure", !.Z = real(frame.Z)]
            /\ trace' = Append(trace, "print")
       ELSE /\ frame' = [frame EXCEPT !.pc = "figure"]
            /\ trace' = trace
    /\ UNCHANGED <<ps, numpy_func, figs, lastVis>>

\* line 96: plt.subplots makes a figure and registers it with pyplot.
PlotFigure ==
    /\ Running("plot_zero_contours", "figure")
    /\ figs' = figs + 1
    /\ frame' = [frame EXCEPT !.pc = "contour"] @@ [fig |-> figs + 1]
    /\ trace' = Append(trace, "subplots")
    /\ UNCHANGED <<ps, numpy_func, lastVis>>

\* lines 99-115: the contours of the requested levels, the labels, the return.
PlotContour ==
    /\ Running("plot_zero_contours", "contour")
    /\ LET c == ax_contour(frame.X, frame.Y, frame.Z, frame.levels)
       IN  IF c.err # "none"
           THEN /\ frame' = Raise(c.err)
                /\ trace' = Append(trace, "raise")
           ELSE /\ frame' = [frame EXCEPT !.pc = "returned"] @@
                            [contour |-> c, ret |-> <<frame.fig, c>>]
                /\ trace' = Append(trace, "contour")
    /\ UNCHANGED <<ps, numpy_func, figs, lastVis>>

Ended == frame.pc \in {"returned", "raised"}

\* The call is over: its frame is dropped.  What a returned
\* vis_complex_equation call was given and gave is remembered in lastVis.
Return ==
    /\ Ended
    /\ frame' = NoFrame
    /\ trace' = <<>>
    /\ lastVis' = IF Running("vis_complex_equation", "returned")
                  THEN <<[numpy_func |-> frame.numpy_func,
                          param_space |-> frame.param_space,
                          ret |-> frame.ret]>>
                  ELSE lastVis
    /\ UNCHANGED <<ps, numpy_func, figs>>

(* ============================ properties =============================== *)

Has(field) == field \in DOMAIN frame

Events == {trace[i] : i \in 1..Len(trace)}

\* The symbols a declaration fixes; none when the argument was left out.
DeclaredKeys(fixed) == IF fixed = None THEN {} ELSE Keys(fixed)

\* A symbol is declared both as an axis and as a fixed parameter.
Conflicting(axes, fixed) == axes \cap DeclaredKeys(fixed) # {}

\* The expression has a free symbol that is neither an axis nor fixed.
Unresolved(expr, axes, fixed) ==
    ~(free_symbols(expr) \subseteq axes \cup DeclaredKeys(fixed))

\* C1: a parameter space with a resolution of 1 on some axis is never
\* constructed, and the spacing range/(resolution-1) is never computed with a
\* zero divisor.
C1_UnitResolutionRejected ==
    /\ ps # <<>> =>
          /\ ps[1].x_resolution # 1
          /\ ps[1].y_resolution # 1
          /\ ps[1].z_resolution # 1
    /\ Running("vis_complex_equation", "grid") =>
          /\ frame.param_space.x_resolution - 1 # 0
          /\ frame.param_space.y_resolution - 1 # 0
          /\ frame.param_space.z_resolution - 1 # 0

\* C2: when a symbol is both an axis and a fixed parameter, get_numpy_func
\* and plot_zero_contours end in ConflictingParameter and return nothing.
C2_ConflictRejected ==
    /\ (Ended /\ frame.op = "get_numpy_func"
           /\ Conflicting(AxisSymbols(frame.param_space),
                          frame.param_space.fixed_param))
          => (frame.err = "ConflictingParameter" /\ ~Has("ret"))
    /\ (Ended /\ frame.op = "plot_zero_contours"
           /\ Conflicting({frame.param_x, frame.param_y}, frame.fixed_params))
          => (frame.err = "ConflictingParameter" /\ ~Has("ret"))

\* C3: when the expression has a free symbol that is neither an axis nor
\* fixed, get_numpy_func and plot_zero_contours end in UnresolvedSymbol; a
\* compiled function is returned only when the free symbols of the
\* substituted expression are all axis symbols.
C3_UnresolvedRejected ==
    /\ (Ended /\ frame.op = "get_numpy_func"
           /\ Unresolved(frame.expr, AxisSymbols(frame.param_space),
                         frame.param_space.fixed_param))
          => (frame.err = "UnresolvedSymbol" /\ ~Has("ret"))
    /\ (Ended /\ frame.op = "plot_zero_contours"
           /\ Unresolved(frame.func, {frame.param_x, frame.param_y},
                         frame.fixed_params))
          => frame.err = "UnresolvedSymbol"
    /\ (Ended /\ frame.op = "get_numpy_func" /\ Has("ret"))
          => free_symbols(frame.ret.body) \subseteq AxisSymbols(frame.param_space)

\* The request of the running call is one the specification rejects:
\* a resolution below 2, a conflicting parameter or an unresolved symbol.
InvalidRequest ==
    \/ /\ frame.op = "vis_complex_equation"
       /\ \/ frame.param_space.x_resolution < 2
          \/ frame.param_space.y_resolution < 2
          \/ frame.param_space.z_resolution < 2
          \/ Conflicting(AxisSymbols(frame.param_space),
                         frame.param_space.fixed_param)
          \/ ~(free_symbols(frame.numpy_func.body)
                  \subseteq AxisSymbols(frame.param_space))
    \/ /\ frame.op = "plot_zero_contours"
       /\ \/ frame.resolution < 2
          \/ Conflicting({frame.param_x, frame.param_y}, frame.fixed_params)
          \/ Unresolved(frame.func, {frame.param_x, frame.param_y},
                        frame.fixed_params)

\* C4: a call that ends in an error for an invalid request has not evaluated
\* the function over the grid before the error was raised.
C4_RejectedBeforeEvaluation ==
    (frame.pc = "raised" /\ InvalidRequest) => "evaluate" \notin Events

\* The value of compiled function f at one point, as <<real, imaginary>>.
ValueAt(f, point) ==
    LET v == Call(f, [n \in 1..Len(point) |-> Scalar(point[n])])
    IN  <<real(v).data[<<>>], imag(v).data[<<>>]>>

\* C5: the "real" and "imag" fields attached to the grid have one entry per
\* lattice point, and the entry of the point numbered (i, j, k), which lies
\* at (x[i], y[j], z[k]), is the part of the function's value there.
C5_FieldOrder ==
    (frame.op = "vis_complex_equation"
       /\ frame.pc \in {"contour", "intersect", "returned"}) =>
    LET g == frame.grid
        nx == frame.param_space.x_resolution
        ny == frame.param_space.y_resolution
        nz == frame.param_space.z_resolution
    IN  /\ nx >= 2 /\ ny >= 2 /\ nz >= 2
        /\ DOMAIN g.point_data["real"] = 0..(nx * ny * nz - 1)
        /\ DOMAIN g.point_data["imag"] = 0..(nx * ny * nz - 1)
        /\ \A i \in 0..(nx - 1), j \in 0..(ny - 1), k \in 0..(nz - 1) :
             LET at == <<frame.x.data[<<i>>], frame.y.data[<<j>>],
                         frame.z.data[<<k>>]>>
             IN  /\ PointPos(g, i, j, k) = at
                 /\ g.point_data["real"][PointId(g, i, j, k)]
                       = ValueAt(frame.numpy_func, at)[1]
                 /\ g.point_data["imag"][PointId(g, i, j, k)]
                       = ValueAt(frame.numpy_func, at)[2]

\* C5 witness: fields attached on a lattice whose resolutions are not all equal
\* (2, 3, 2), for a function of all three axes.
C5_Witness ==
    /\ Running("vis_complex_equation", "returned")
    /\ frame.param_space.x_resolution = 2
    /\ frame.param_space.y_resolution = 3
    /\ frame.param_space.z_resolution = 2
    /\ free_symbols(frame.numpy_func.body) = {"x", "y", "z"}

\* The narrowing policy of plot_zero_contours: a complex result is reported
\* before the figure and the contours are made and only its real part goes
\* on; a real result goes on as it is, unreported.
NarrowingPolicy ==
    (frame.op = "plot_zero_contours" /\ Has("sampled") /\ frame.pc # "narrow") =>
    IF frame.sampled.cplx
    THEN /\ \E n \in 1..Len(trace) :
              /\ trace[n] = "print"
              /\ \A m \in 1..n : trace[m] \notin {"subplots", "contour"}
         /\ ~frame.Z.cplx
         /\ DOMAIN frame.Z.data = DOMAIN frame.sampled.data
         /\ \A i \in DOMAIN frame.sampled.data :
              frame.Z.data[i] = frame.sampled.data[i][1]
    ELSE /\ "print" \notin Events
         /\ frame.Z = frame.sampled

\* C6: a complex sampled result is reported, narrowed to its real part and
\* does not make the call fail; a real one is passed on unchanged, unreported.
C6_ComplexNarrowed ==
    /\ NarrowingPolicy
    /\ (frame.op = "plot_zero_contours" /\ Has("sampled") /\ frame.sampled.cplx)
          => frame.pc # "raised"

\* Two vis_complex_equation calls with the same arguments return the same.
VisIdempotent ==
    (Running("vis_complex_equation", "returned") /\ lastVis # <<>>
       /\ lastVis[1].numpy_func = frame.numpy_func
       /\ lastVis[1].param_space = frame.param_space)
      => frame.ret = lastVis[1].ret

\* No call modifies the parameter space or the compiled function it is given.
ArgsUnmodified ==
    /\ (frame.op # "none") => ps = frame.entry.ps
    /\ (frame.op \in {"vis_complex_equation", "plot_zero_contours"})
          => numpy_func = frame.entry.numpy_func

\* No call has written state that outlives it: when a call returns, the
\* process-wide state is what it was when the call began.
NoSurvivingState == frame.pc = "returned" => figs = frame.entry.figs

\* C9: vis_complex_equation is idempotent, no call reads or writes state
\* that survives the call, and no call modifies the parameter space or the
\* compiled function.
C9_CallsKeepNoState ==
    /\ VisIdempotent
    /\ ArgsUnmodified
    /\ NoSurvivingState

\* The smallest and largest value of a real array.
ArrayMin(Z) == CHOOSE v \in {Z.data[i] : i \in DOMAIN Z.data} :
                  \A i \in DOMAIN Z.data : RLe(v, Z.data[i])
ArrayMax(Z) == CHOOSE v \in {Z.data[i] : i \in DOMAIN Z.data} :
                  \A i \in DOMAIN Z.data : RLe(Z.data[i], v)

\* C10: every contour point lies within the declared ranges, a level outside
\* the sampled value range has no contour, and the field at node (column i,
\* row j), which lies at (x[i], y[j]), is the function's value there.
C10_ContoursInRange ==
    Running("plot_zero_contours", "returned") =>
    LET c == frame.contour
        n == frame.resolution
    IN  /\ \A l \in 1..Len(c.levels) : \A pt \in c.points[l] :
             /\ RLe(RInt(frame.x_range[1]), pt[1])
             /\ RLe(pt[1], RInt(frame.x_range[2]))
             /\ RLe(RInt(frame.y_range[1]), pt[2])
             /\ RLe(pt[2], RInt(frame.y_range[2]))
        /\ \A l \in 1..Len(c.levels) :
             (\/ RLt(RInt(c.levels[l]), ArrayMin(frame.Z))
              \/ RLt(ArrayMax(frame.Z), RInt(c.levels[l])))
               => c.points[l] = {}
        /\ \A i \in 0..(n - 1), j \in 0..(n - 1) :
             /\ frame.X.data[<<j, i>>] = frame.x.data[<<i>>]
             /\ frame.Y.data[<<j, i>>] = frame.y.data[<<j>>]
             /\ frame.Z.data[<<j, i>>]
                   = ValueAt(frame.func_numeric,
                             <<frame.x.data[<<i>>], frame.y.data[<<j>>]>>
                             \o [m \in 1..Len(frame.fixed_values) |->
                                   RInt(frame.fixed_values[m])])[1]

\* Points at which a returned function is compared with the expression.
SamplePoints == {<<0, 1, 2>>, <<2, -1, 1>>, <<-1, 3, 0>>}

\* The expression with x := a, y := b, z := c and every fixed symbol replaced
\* by its declared value, computed on the expression itself.
DirectValue(expr, space, point) ==
    LET val(s) == IF s = space.x THEN point[1]
                  ELSE IF s = space.y THEN point[2]
                  ELSE IF s = space.z THEN point[3]
                  ELSE Lookup(space.fixed_param, s)
        of(l) == l.c + SumOver({s \in Symbols : l.k[s] # 0},
                               [s \in Symbols |-> l.k[s] * val(s)])
    IN  <<RInt(of(expr.re)), RInt(of(expr.im))>>

\* get_numpy_func returned a function of the three axes, in the declared
\* order, whose value at every point is that of the expression.
ReturnedFunctionCorrect ==
    (frame.op = "get_numpy_func" /\ frame.pc = "returned"
       /\ ~Conflicting(AxisSymbols(frame.param_space),
                       frame.param_space.fixed_param)
       /\ ~Unresolved(frame.expr, AxisSymbols(frame.param_space),
                      frame.param_space.fixed_param)) =>
    /\ frame.ret.params
          = <<frame.param_space.x, frame.param_space.y, frame.param_space.z>>
    /\ (free_symbols(frame.expr) \subseteq AxisSymbols(frame.param_space)
          => frame.ret.body = frame.expr)
    /\ \A pt \in SamplePoints :
          ValueAt(frame.ret, <<RInt(pt[1]), RInt(pt[2]), RInt(pt[3])>>)
             = DirectValue(frame.expr, frame.param_space, pt)

\* The parameter space of the call declares no fixed parameter: an empty
\* dict, or the argument left out.
ZeroFixed == DeclaredKeys(frame.param_space.fixed_param) = {}

\* C11: get_numpy_func succeeds for a parameter space with zero fixed
\* parameters, the fixed_param argument left at its default included; the
\* function it returns takes (x, y, z) in this order, is the unchanged
\* expression when all free symbols are axes, and has at every point the value
\* of the expression with the axes and the fixed symbols replaced.
C11_ZeroFixedSucceeds ==
    /\ (Ended /\ frame.op = "get_numpy_func" /\ ZeroFixed
           /\ free_symbols(frame.expr) \subseteq AxisSymbols(frame.param_space))
          => (frame.err = "none" /\ Has("ret"))
    /\ ReturnedFunctionCorrect

\* The part of C11 about an explicitly empty dict.
EmptyDictSucceeds ==
    (Ended /\ frame.op = "get_numpy_func"
       /\ frame.param_space.fixed_param = <<>>
       /\ free_symbols(frame.expr) \subseteq AxisSymbols(frame.param_space))
      => (frame.err = "none" /\ Has("ret"))

\* C10 witness: a returned call with one level that has contour points and
\* one level below the sampled values that has none.
C10_Witness ==
    /\ Running("plot_zero_contours", "returned")
    /\ \E l, m \in 1..Len(frame.contour.levels) :
         /\ frame.contour.points[l] # {}
         /\ RLt(RInt(frame.contour.levels[m]), ArrayMin(frame.Z))
         /\ frame.contour.points[m] = {}

Next ==
    \/ NewParamSpace
    \/ GetNumpyFunc
    \/ VisCall
    \/ VisEvaluate
    \/ VisGrid
    \/ VisFields
    \/ VisContour
    \/ VisIntersect
    \/ PlotCall
    \/ PlotEvaluate
    \/ PlotNarrow
    \/ PlotFigure
    \/ PlotContour
    \/ Return

Spec == Init /\ [][Next]_vars
====
